---------------------------- MODULE Spec2Model ----------------------------
(***************************************************************************)
(* aws-go-forward: session orchestration and liveness subsystem.           *)
(*                                                                         *)
(* The repository holds three programs (package main each):                *)
(*   "builtin"  src/main.go                  in-process agent only         *)
(*   "dual"     src/unnamed/part_000:1-261   in-process or spawned agent,  *)
(*                                           selected by the flag -b       *)
(*   "external" src/unnamed/part_000:263-443 spawned agent only, no        *)
(*                                           keep-alive                    *)
(* The variable build says which of them runs.  One behaviour is one run   *)
(* of the process: the main goroutine (pc), the KeepAlive goroutine (kpc), *)
(* the ticker, the operating system delivering signals, and the spawned    *)
(* child process.                                                          *)
(***************************************************************************)
EXTENDS Integers, Sequences, FiniteSets, TLC

VARIABLES
    build,                  \* which program of the repository runs
    cfg,                    \* var cfg Config
    configFile,             \* var configFile string
    pc,                     \* position of the main goroutine
    exitCode,               \* process exit status, -1 while the process runs
    instanceID,             \* instanceID returned by getInstanceID
    sessionResponse,        \* *ssm.StartSessionOutput returned by startPortForwarding
    ssmEndpoint,            \* ssmEndpoint string
    stopChan,               \* "nil" (not made yet), "open", "closed"
    sessionManagerProcess,  \* var sessionManagerProcess *os.Process: "nil" or "proc"
    child,                  \* the spawned agent: "none", "running", "killed", "exited"
    launchArgs,             \* argument vector handed to the agent, <<>> before the launch
    launched,               \* "none", "builtin" or "external": how the agent was started
    notified,               \* signal.Notify(c, ...) has been called
    c,                      \* number of signals buffered in c (capacity 1)
    sigLog,                 \* history: where each delivered signal found main
    kpc,                    \* position of the KeepAlive goroutine
    tickPending,            \* a tick is buffered in ticker.C (capacity 1)
    ticksFired,             \* history: how often the ticker fired
    ticksTaken,             \* history: ticks received from ticker.C by the loop
    probes,                 \* history: outcome of each net.Dial of the loop
    dialed,                 \* history: the addresses net.Dial was called with
    connOpen,               \* number of probe connections currently open
    lastWrite,              \* history: "none", or how the last conn.Write ended
    ticksAtStop,            \* history: ticksTaken when stopChan was closed, -1 before
    calls,                  \* history: external service calls made, in order
    killCount,              \* history: calls of sessionManagerProcess.Kill()
    killBeforeStop,         \* history: a Kill() was issued while stopChan was not closed
    failure,                \* history: the setup step that failed, "none" if none did
    handleWrites,           \* history: assignments to sessionManagerProcess
    handleReads,            \* history: the places that read sessionManagerProcess
    fnpc,                   \* position of the function harness (SpecFn)
    fnIn,                   \* inputs of the function harness
    fnOut                   \* results of the function harness

vars == << build, cfg, configFile, pc, exitCode, instanceID, sessionResponse,
           ssmEndpoint, stopChan, sessionManagerProcess, child, launchArgs,
           launched, notified, c, sigLog, kpc, tickPending, ticksFired,
           ticksTaken, probes, dialed, connOpen, lastWrite, ticksAtStop, calls,
           killCount, killBeforeStop, failure, handleWrites, handleReads,
           fnpc, fnIn, fnOut >>

mainVars == << build, cfg, configFile, pc, exitCode, instanceID, sessionResponse,
               ssmEndpoint, stopChan, sessionManagerProcess, child, launchArgs,
               launched, notified, c, sigLog, kpc, tickPending, ticksFired,
               ticksTaken, probes, dialed, connOpen, lastWrite, ticksAtStop, calls,
               killCount, killBeforeStop, failure, handleWrites, handleReads >>

fnVars == << fnpc, fnIn, fnOut >>

----------------------------------------------------------------------------
(* Bounds of the model *)

\* signals the operating system delivers in one run
MaxSignals == 2
\* firings of the keep-alive ticker in one run
MaxTicks == 2
\* reservations in one DescribeInstances result
MaxReservations == 2
\* instances in one DescribeInstances result
MaxInstances == 3
\* the function harness tries every port in -MaxPort .. MaxPort
MaxPort == 12

----------------------------------------------------------------------------
(* Values *)

Builds == {"builtin", "dual", "external"}

Strings(v) == {"", v}

\* type Config struct
Configs ==
    [Profile : Strings("default"), Region : Strings("us-east-1"),
     InstanceName : Strings("db-bastion"), LocalPort : {0, 3306},
     RemoteHost : Strings("db.internal"), RemotePort : {0, 3306},
     UseBuiltin : BOOLEAN]

\* The flag -b exists in the dual program only; the others leave UseBuiltin false.
ConfigsOf(b) == {k \in Configs : b = "dual" \/ ~k.UseBuiltin}

InstanceIds == {"i-0a", "i-0b"}
InstanceStates == {"running", "stopped"}

\* types.Instance, the two fields getInstanceID reads
Instances == [InstanceId : InstanceIds, State : InstanceStates]

RECURSIVE SeqsUpTo(_, _)
SeqsUpTo(S, n) ==
    IF n = 0 THEN {<<>>}
    ELSE LET shorter == SeqsUpTo(S, n - 1)
         IN  shorter \cup {Append(s, x) : s \in {t \in shorter : Len(t) = n - 1}, x \in S}

RECURSIVE Sum(_)
Sum(lens) == IF lens = << >> THEN 0 ELSE Head(lens) + Sum(Tail(lens))

\* `flat` cut into consecutive reservations of the lengths `lens`
RECURSIVE Split(_, _)
Split(flat, lens) ==
    IF lens = << >> THEN << >>
    ELSE << SubSeq(flat, 1, Head(lens)) >>
         \o Split(SubSeq(flat, Head(lens) + 1, Len(flat)), Tail(lens))

\* ec2.DescribeInstancesOutput.Reservations, each reservation being its
\* Instances: at most MaxReservations reservations (empty ones included)
\* holding at most MaxInstances instances together
DescribeOutputs ==
    {Split(flat, lens) :
        << flat, lens >> \in
            {fl \in SeqsUpTo(Instances, MaxInstances)
                      \X SeqsUpTo(0 .. MaxInstances, MaxReservations) :
                Sum(fl[2]) = Len(fl[1])}}

\* ssm.StartSessionOutput
SessionOutputs ==
    [SessionId : {"sess-1"}, StreamUrl : {"wss://stream/1"},
     TokenValue : {"tok-A", "tok-B"}]

NoResponse == [SessionId |-> "", StreamUrl |-> "", TokenValue |-> ""]

Terminal == {"exited", "fatal", "killed"}

Alive == pc \notin Terminal


----------------------------------------------------------------------------
(* Pure functions of the program *)

Digit(d) ==
    CASE d = 0 -> "0" [] d = 1 -> "1" [] d = 2 -> "2" [] d = 3 -> "3" [] d = 4 -> "4"
      [] d = 5 -> "5" [] d = 6 -> "6" [] d = 7 -> "7" [] d = 8 -> "8" [] d = 9 -> "9"

RECURSIVE NatToStr(_)
NatToStr(n) == IF n < 10 THEN Digit(n) ELSE NatToStr(n \div 10) \o Digit(n % 10)

\* fmt.Sprintf("%d", n)
SprintfD(n) == IF n < 0 THEN "-" \o NatToStr(0 - n) ELSE NatToStr(n)

\* fmt.Sprintf("127.0.0.1:%d", localPort)
DialAddr(localPort) == "127.0.0.1:" \o SprintfD(localPort)

\* the error DescribeInstances returns when the query fails
Ec2Errors == {"RequestError: send request failed", "UnauthorizedOperation"}

NotFoundError(b) ==
    IF b = "external" THEN "no running instances found"
    ELSE "No running aws instances found."

\* faulty variant of ScanInstances: the state of the instance is not looked at
ScanInstancesAnyState(instances, i) ==
    IF i > Len(instances) THEN "" ELSE instances[i].InstanceId

\* the inner loop of getInstanceID: the first running instance of one reservation
RECURSIVE ScanInstances(_, _)
ScanInstances(instances, i) ==
    IF i > Len(instances) THEN ""
    ELSE IF instances[i].State = "running" THEN instances[i].InstanceId
    ELSE ScanInstances(instances, i + 1)

\* the outer loop of getInstanceID
RECURSIVE ScanReservations(_, _)
ScanReservations(reservations, r) ==
    IF r > Len(reservations) THEN ""
    ELSE LET found == ScanInstances(reservations[r], 1)
         IN  IF found # "" THEN found ELSE ScanReservations(reservations, r + 1)

\* getInstanceID: `queryErr` is the error of client.DescribeInstances ("" for
\* none) and `reservations` its output.Reservations
getInstanceID(b, queryErr, reservations) ==
    IF queryErr # "" THEN [id |-> "", err |-> queryErr]
    ELSE LET found == ScanReservations(reservations, 1)
         IN  IF found # "" THEN [id |-> found, err |-> ""]
             ELSE [id |-> "", err |-> NotFoundError(b)]

\* faulty variant of StartSessionInput: the two ports change places
StartSessionInputSwapped(id, remoteHost, localPort, remotePort) ==
    [Target |-> id,
     DocumentName |-> "AWS-StartPortForwardingSessionToRemoteHost",
     Parameters |-> [localPortNumber |-> << SprintfD(remotePort) >>,
                     host |-> << remoteHost >>,
                     portNumber |-> << SprintfD(localPort) >>]]

\* the ssm.StartSessionInput built by startPortForwarding
StartSessionInput(id, remoteHost, localPort, remotePort) ==
    [Target |-> id,
     DocumentName |-> "AWS-StartPortForwardingSessionToRemoteHost",
     Parameters |-> [localPortNumber |-> << SprintfD(localPort) >>,
                     host |-> << remoteHost >>,
                     portNumber |-> << SprintfD(remotePort) >>]]

\* json.Marshal(response): the exported fields in declaration order; the
\* ResultMetadata of the SDK has no exported field and encodes as {}
Marshal(response) ==
    "{\"SessionId\":\"" \o response.SessionId \o
    "\",\"StreamUrl\":\"" \o response.StreamUrl \o
    "\",\"TokenValue\":\"" \o response.TokenValue \o
    "\",\"ResultMetadata\":{}}"

\* fmt.Sprintf(`{"Target":"%s"}`, instanceID)
TargetJSON(id) == "{\"Target\":\"" \o id \o "\"}"

\* fmt.Sprintf("https://ssm.%s.amazonaws.com", region)
Endpoint(region) == "https://ssm." \o region \o ".amazonaws.com"

\* faulty variant of BuiltinArgs: the instance identifier is passed bare
BuiltinArgsBareTarget(response, region, profile, id, endpoint) ==
    << "aws-go-forward", Marshal(response), region, "StartSession", profile,
       id, endpoint >>

\* args of startSessionManagerPluginBuiltin
BuiltinArgs(response, region, profile, id, endpoint) ==
    << "aws-go-forward", Marshal(response), region, "StartSession", profile,
       TargetJSON(id), endpoint >>

\* faulty variant of ExternalArgs: region and profile change places
ExternalArgsSwapped(response, region, profile, id, endpoint) ==
    << "session-manager-plugin", Marshal(response), profile, "StartSession", region,
       TargetJSON(id), endpoint >>

\* cmd.Args of exec.Command("session-manager-plugin", ...): the name, then the arguments
ExternalArgs(response, region, profile, id, endpoint) ==
    << "session-manager-plugin", Marshal(response), region, "StartSession", profile,
       TargetJSON(id), endpoint >>

\* cmd.Args of startSessionManagerPlugin, which takes no endpoint and formats it
\* from the region
PluginArgs(response, region, profile, id) ==
    << "session-manager-plugin", Marshal(response), region, "StartSession", profile,
       TargetJSON(id), Endpoint(region) >>

\* faulty variant of MissingParameters: the remote port is not checked
MissingParametersNoRemotePort(k) ==
    \/ k.Profile = "" \/ k.Region = "" \/ k.InstanceName = ""
    \/ k.LocalPort = 0 \/ k.RemoteHost = ""

\* the condition of the "parameters are required" check of main
MissingParameters(k) ==
    \/ k.Profile = "" \/ k.Region = "" \/ k.InstanceName = ""
    \/ k.LocalPort = 0 \/ k.RemoteHost = "" \/ k.RemotePort = 0

\* main: cfg = *fileCfg.  The record read from the file takes the place of the
\* one the flags filled, whole; a key the file does not have is the zero value
\* of its field in fileCfg (loadConfigFromFile maps the section onto &Config{})
ResolveConfig(flags, fileCfg) == fileCfg

\* the launch strategy of a run
UsesBuiltin == build = "builtin" \/ (build = "dual" /\ cfg.UseBuiltin)


----------------------------------------------------------------------------
(* The run of the process *)

\* the function harness does nothing in a run of the process
FnOff == fnpc = "off" /\ fnIn = << >> /\ fnOut = << >>

\* main after flag.Parse(): cfg holds the flags, nothing else has happened
MainInit ==
    /\ build \in Builds
    /\ cfg \in ConfigsOf(build)
    /\ configFile \in {"", "settings.ini"}
    /\ pc = "loadConfig"
    /\ exitCode = -1
    /\ instanceID = ""
    /\ sessionResponse = NoResponse
    /\ ssmEndpoint = ""
    /\ stopChan = "nil"
    /\ sessionManagerProcess = "nil"
    /\ child = "none"
    /\ launchArgs = << >>
    /\ launched = "none"
    /\ notified = FALSE
    /\ c = 0
    /\ sigLog = << >>
    /\ kpc = "none"
    /\ tickPending = FALSE
    /\ ticksFired = 0
    /\ ticksTaken = 0
    /\ probes = << >>
    /\ dialed = {}
    /\ connOpen = 0
    /\ lastWrite = "none"
    /\ ticksAtStop = -1
    /\ calls = << >>
    /\ killCount = 0
    /\ killBeforeStop = FALSE
    /\ failure = "none"
    /\ handleWrites = 0
    /\ handleReads = {}

Init == MainInit /\ FnOff

\* everything of the run but the spawned agent, which lives on by itself
mainVarsButChild ==
    << build, cfg, configFile, pc, exitCode, instanceID, sessionResponse, ssmEndpoint,
       stopChan, sessionManagerProcess, launchArgs, launched, notified, c, sigLog, kpc,
       tickPending, ticksFired, ticksTaken, probes, dialed, connOpen, lastWrite,
       ticksAtStop, calls, killCount, killBeforeStop, failure, handleWrites,
       handleReads >>

keeperVars ==
    << kpc, tickPending, ticksFired, ticksTaken, probes, dialed, connOpen, lastWrite >>
signalVars == << notified, c, sigLog >>
tunnelVars ==
    << sessionManagerProcess, child, launchArgs, launched, handleWrites, handleReads >>
setupVars == << build, cfg, configFile, instanceID, sessionResponse, ssmEndpoint >>
shutdownVars == << stopChan, ticksAtStop, killCount, killBeforeStop >>

\* the exit status and the failed step, left as they are
exitVars == << exitCode, failure >>

\* log.Fatal / log.Fatalf after the step failed: the message, then os.Exit(1)
Fatal(step) == pc' = "fatal" /\ exitCode' = 1 /\ failure' = step

\* main: if configFile != "" { fileCfg, err := loadConfigFromFile(configFile) ... cfg = *fileCfg }
LoadConfig ==
    /\ pc = "loadConfig"
    /\ \/ /\ configFile = ""
          /\ pc' = "validate"
          /\ UNCHANGED << cfg, exitVars >>
       \/ /\ configFile # ""
          /\ \E fileCfg \in ConfigsOf(build) :
                cfg' = ResolveConfig(cfg, fileCfg) /\ pc' = "validate" /\ UNCHANGED exitVars
       \/ /\ configFile # ""
          /\ Fatal("config")
          /\ UNCHANGED cfg
    /\ UNCHANGED << build, configFile, instanceID, sessionResponse, ssmEndpoint,
                    tunnelVars, signalVars, keeperVars, shutdownVars, calls, fnVars >>

\* main: the check of the six required parameters
Validate ==
    /\ pc = "validate"
    /\ IF MissingParameters(cfg) THEN Fatal("validate")
       ELSE pc' = "createSession" /\ UNCHANGED exitVars
    /\ UNCHANGED << setupVars, tunnelVars, signalVars, keeperVars, shutdownVars,
                    calls, fnVars >>

\* main: awsCfg, err := createAWSSession(cfg.Profile, cfg.Region); it reads the
\* shared configuration of the profile and calls no service
CreateAWSSession ==
    /\ pc = "createSession"
    /\ \/ pc' = "locate" /\ UNCHANGED exitVars
       \/ Fatal("session")
    /\ UNCHANGED << setupVars, tunnelVars, signalVars, keeperVars, shutdownVars,
                    calls, fnVars >>

\* main: instanceID, err := getInstanceID(ec2Client, cfg.InstanceName)
Locate ==
    /\ pc = "locate"
    /\ calls' = Append(calls, "DescribeInstances")
    /\ \E queryErr \in {""} \cup Ec2Errors, reservations \in DescribeOutputs :
          LET res == getInstanceID(build, queryErr, reservations)
          IN  IF res.err # "" THEN Fatal("locate") /\ UNCHANGED instanceID
              ELSE /\ instanceID' = res.id
                   /\ pc' = "negotiate"
                   /\ UNCHANGED exitVars
    /\ UNCHANGED << build, cfg, configFile, sessionResponse, ssmEndpoint, tunnelVars,
                    signalVars, keeperVars, shutdownVars, fnVars >>

\* faulty variant of Negotiate: the error of startPortForwarding is not checked
NegotiateUnchecked ==
    /\ pc = "negotiate"
    /\ calls' = Append(calls, "StartSession")
    /\ \/ \E out \in SessionOutputs : sessionResponse' = out
       \/ UNCHANGED sessionResponse
    /\ pc' = IF build = "external" THEN "launch" ELSE "startKeeper"
    /\ UNCHANGED << build, cfg, configFile, exitVars, instanceID, ssmEndpoint, tunnelVars,
                    signalVars, keeperVars, shutdownVars, fnVars >>

\* main: sessionResponse, err := startPortForwarding(ssmClient, instanceID, ...)
Negotiate ==
    /\ pc = "negotiate"
    /\ calls' = Append(calls, "StartSession")
    /\ \/ \E out \in SessionOutputs :
            /\ sessionResponse' = out
            /\ pc' = IF build = "external" THEN "launch" ELSE "startKeeper"
            /\ UNCHANGED exitVars
       \/ Fatal("negotiate") /\ UNCHANGED sessionResponse
    /\ UNCHANGED << build, cfg, configFile, instanceID, ssmEndpoint, tunnelVars,
                    signalVars, keeperVars, shutdownVars, fnVars >>

\* main: ssmEndpoint := ...; stopChan := make(chan struct{}); go KeepAlive(cfg.LocalPort, stopChan)
\* KeepAlive starts with its ticker made and waits in the select
StartKeeper ==
    /\ pc = "startKeeper"
    /\ ssmEndpoint' = Endpoint(cfg.Region)
    /\ stopChan' = "open"
    /\ kpc' = "select"
    /\ pc' = "launch"
    /\ UNCHANGED << build, cfg, configFile, exitVars, instanceID, sessionResponse,
                    tunnelVars, signalVars, tickPending, ticksFired, ticksTaken,
                    probes, dialed, connOpen, lastWrite, ticksAtStop, killCount,
                    killBeforeStop, calls, fnVars >>


\* startSessionManagerPluginBuiltin up to session.ValidateInputAndStartSession(args,
\* &output), which blocks while the agent runs the tunnel
LaunchBuiltin ==
    /\ pc = "launch"
    /\ UsesBuiltin
    /\ launchArgs' = BuiltinArgs(sessionResponse, cfg.Region, cfg.Profile, instanceID,
                                 ssmEndpoint)
    /\ launched' = "builtin"
    /\ calls' = Append(calls, "launch")
    /\ pc' = "blocked"
    /\ UNCHANGED << setupVars, exitVars, sessionManagerProcess, child, handleWrites,
                    handleReads, signalVars, keeperVars, shutdownVars, fnVars >>

\* how session.ValidateInputAndStartSession can come back: the session it ran
\* has ended, or it could not start one and wrote the reason to output
AgentOutcomes == {"ended", "failed"}

\* what startSessionManagerPluginBuiltin returns once the agent call is back:
\* "nil" whatever the agent did (return nil is its only return)
BuiltinResult(outcome) == "nil"

\* faulty variant of BuiltinReturn: main returns once the agent call is back
BuiltinReturnEndsMain ==
    /\ pc = "blocked"
    /\ pc' = "exited"
    /\ exitCode' = 0
    /\ UNCHANGED << setupVars, failure, tunnelVars, signalVars, keeperVars, shutdownVars,
                    calls, fnVars >>

\* session.ValidateInputAndStartSession returns; startSessionManagerPluginBuiltin
\* prints the captured output and returns; main: if err != nil { log.Fatalf(...) },
\* else it goes on to the signal wait
BuiltinReturn ==
    /\ pc = "blocked"
    /\ \E outcome \in AgentOutcomes :
          IF BuiltinResult(outcome) # "nil"
          THEN Fatal("launch")
          ELSE /\ pc' = "notify"
               /\ failure' = IF outcome = "failed" THEN "launch" ELSE failure
               /\ UNCHANGED exitCode
    /\ UNCHANGED << setupVars, tunnelVars, signalVars, keeperVars, shutdownVars,
                    calls, fnVars >>

\* the endpoint argument of the spawned agent: main's ssmEndpoint in the dual
\* program, built in startSessionManagerPlugin in the external one
ExternalEndpoint == IF build = "external" THEN Endpoint(cfg.Region) ELSE ssmEndpoint

\* faulty variant of LaunchExternal: the handle returned by the launcher is dropped
LaunchExternalDropsHandle ==
    /\ pc = "launch"
    /\ ~UsesBuiltin
    /\ launchArgs' = ExternalArgs(sessionResponse, cfg.Region, cfg.Profile, instanceID,
                                  ExternalEndpoint)
    /\ calls' = Append(calls, "launch")
    /\ \/ /\ child' = "running"
          /\ launched' = "external"
          /\ pc' = "notify"
          /\ UNCHANGED exitVars
       \/ /\ Fatal("launch")
          /\ UNCHANGED << child, launched >>
    /\ UNCHANGED << setupVars, sessionManagerProcess, handleWrites, handleReads,
                    signalVars, keeperVars, shutdownVars, fnVars >>

\* sessionManagerProcess, err = startSessionManagerPluginExternal(...): exec.Command,
\* Setpgid, cmd.Start(); on an error main ends in log.Fatalf, else it prints
\* sessionManagerProcess.Pid
LaunchExternal ==
    /\ pc = "launch"
    /\ ~UsesBuiltin
    /\ launchArgs' = ExternalArgs(sessionResponse, cfg.Region, cfg.Profile, instanceID,
                                  ExternalEndpoint)
    /\ calls' = Append(calls, "launch")
    /\ handleWrites' = handleWrites + 1
    /\ \/ /\ sessionManagerProcess' = "proc"
          /\ child' = "running"
          /\ launched' = "external"
          /\ handleReads' = handleReads \cup {"main"}
          /\ pc' = "notify"
          /\ UNCHANGED exitVars
       \/ /\ Fatal("launch")
          /\ UNCHANGED << sessionManagerProcess, child, launched, handleReads >>
    /\ UNCHANGED << setupVars, signalVars, keeperVars, shutdownVars, fnVars >>

\* main: c := make(chan os.Signal, 1); signal.Notify(c, os.Interrupt, syscall.SIGTERM)
Notify ==
    /\ pc = "notify"
    /\ notified' = TRUE
    /\ pc' = "wait"
    /\ UNCHANGED << setupVars, exitVars, tunnelVars, c, sigLog, keeperVars,
                    shutdownVars, calls, fnVars >>

\* faulty variant of Wait: main does not block until a request is in c
WaitWithoutRequest ==
    /\ pc = "wait"
    /\ c' = 0
    /\ pc' = IF build = "external" THEN "cleanup" ELSE "closeStop"
    /\ UNCHANGED << setupVars, exitVars, tunnelVars, notified, sigLog, keeperVars,
                    shutdownVars, calls, fnVars >>

\* main: <-c
Wait ==
    /\ pc = "wait"
    /\ c > 0
    /\ c' = c - 1
    /\ pc' = IF build = "external" THEN "cleanup" ELSE "closeStop"
    /\ UNCHANGED << setupVars, exitVars, tunnelVars, notified, sigLog, keeperVars,
                    shutdownVars, calls, fnVars >>

\* faulty variant of CloseStop: main closes stopChan and waits for the next request
CloseStopAndWaitAgain ==
    /\ pc = "closeStop"
    /\ stopChan' = "closed"
    /\ ticksAtStop' = ticksTaken
    /\ pc' = "wait"
    /\ UNCHANGED << setupVars, exitVars, tunnelVars, signalVars, keeperVars,
                    killCount, killBeforeStop, calls, fnVars >>

\* main: close(stopChan)
CloseStop ==
    /\ pc = "closeStop"
    /\ stopChan' = "closed"
    /\ ticksAtStop' = ticksTaken
    /\ pc' = IF build = "builtin" THEN "return" ELSE "cleanup"
    /\ UNCHANGED << setupVars, exitVars, tunnelVars, signalVars, keeperVars,
                    killCount, killBeforeStop, calls, fnVars >>

\* faulty variant of Cleanup: the handle is looked at but Kill() is not called
CleanupWithoutKill ==
    /\ pc = "cleanup"
    /\ handleReads' = handleReads \cup {"cleanup"}
    /\ pc' = "return"
    /\ UNCHANGED << setupVars, exitVars, sessionManagerProcess, child, launchArgs,
                    launched, handleWrites, signalVars, keeperVars, shutdownVars, calls,
                    fnVars >>

\* cleanup(): if sessionManagerProcess != nil { _ = sessionManagerProcess.Kill() ... }
Cleanup ==
    /\ pc = "cleanup"
    /\ handleReads' = handleReads \cup {"cleanup"}
    /\ IF sessionManagerProcess # "nil"
       THEN /\ killCount' = killCount + 1
            /\ killBeforeStop' = (killBeforeStop \/ stopChan # "closed")
            /\ child' = IF child = "running" THEN "killed" ELSE child
       ELSE UNCHANGED << killCount, killBeforeStop, child >>
    /\ pc' = "return"
    /\ UNCHANGED << setupVars, exitVars, sessionManagerProcess, launchArgs, launched,
                    handleWrites, signalVars, keeperVars, stopChan, ticksAtStop, calls,
                    fnVars >>

\* main returns: the process exits with status 0 and its goroutines end with it
Return ==
    /\ pc = "return"
    /\ pc' = "exited"
    /\ exitCode' = 0
    /\ UNCHANGED << setupVars, failure, tunnelVars, signalVars, keeperVars, shutdownVars,
                    calls, fnVars >>

\* SIGINT is signal 2 and SIGTERM signal 15; a process ended by signal n has status 128 + n
SignalNumbers == {2, 15}

\* The operating system delivers an interrupt or termination request.  After
\* signal.Notify the runtime puts it in c unless c is full; before, no handler
\* of the program exists and the default disposition ends the process.  (The
\* agent library called by startSessionManagerPluginBuiltin is not part of the
\* repository; whatever it does with a signal during the blocking call, main
\* is not at <-c then and the request does not reach the shutdown path.)
Signal ==
    /\ Alive
    /\ Len(sigLog) < MaxSignals
    /\ sigLog' = Append(sigLog, IF notified THEN "notified" ELSE pc)
    /\ IF notified
       THEN /\ c' = 1
            /\ UNCHANGED << pc, exitVars >>
       ELSE /\ \E n \in SignalNumbers : exitCode' = 128 + n
            /\ pc' = "killed"
            /\ UNCHANGED c
    /\ UNCHANGED << setupVars, failure, tunnelVars, notified, keeperVars, shutdownVars,
                    calls, fnVars >>

\* the spawned agent ends by itself; it runs in its own process group and
\* outlives the parent unless it is killed
ChildExit ==
    /\ child = "running"
    /\ child' = "exited"
    /\ UNCHANGED << setupVars, pc, exitVars, sessionManagerProcess, launchArgs,
                    launched, handleWrites, handleReads, signalVars, keeperVars, shutdownVars, calls, fnVars >>


----------------------------------------------------------------------------
(* The KeepAlive goroutine *)

\* the loop of KeepAlive has not returned
KeeperRunning == kpc \in {"select", "dial", "write", "close"}

\* the ticker of KeepAlive fires; ticker.C holds one tick and a tick that
\* finds it full is dropped
Tick ==
    /\ Alive
    /\ KeeperRunning
    /\ ticksFired < MaxTicks
    /\ ticksFired' = ticksFired + 1
    /\ tickPending' = TRUE
    /\ UNCHANGED << setupVars, pc, exitVars, tunnelVars, signalVars, kpc, ticksTaken,
                    probes, dialed, connOpen, lastWrite, shutdownVars, calls, fnVars >>

\* the cases of the select of KeepAlive that can proceed; when both can, the
\* runtime picks either
SelectReady(tick, stop) ==
    (IF tick THEN {"ticker.C"} ELSE {}) \cup (IF stop = "closed" THEN {"stopChan"} ELSE {})

\* KeepAlive: select { case <-ticker.C: ... case <-stopChan: ... return }
KeepAliveSelect ==
    /\ Alive
    /\ kpc = "select"
    /\ \E case \in SelectReady(tickPending, stopChan) :
          \/ /\ case = "ticker.C"
             /\ tickPending' = FALSE
             /\ ticksTaken' = ticksTaken + 1
             /\ kpc' = "dial"
          \/ /\ case = "stopChan"
             /\ kpc' = "stopped"
             /\ UNCHANGED << tickPending, ticksTaken >>
    /\ UNCHANGED << setupVars, pc, exitVars, tunnelVars, signalVars, ticksFired, probes,
                    dialed, connOpen, lastWrite, shutdownVars, calls, fnVars >>

\* faulty variant of AfterDial: a failed dial ends the loop
AfterDialReturns(outcome) == IF outcome = "refused" THEN "stopped" ELSE "write"

\* where KeepAlive goes after net.Dial: on an error it prints and continues the loop
AfterDial(outcome) == IF outcome = "refused" THEN "select" ELSE "write"

\* KeepAlive: conn, err := net.Dial("tcp", fmt.Sprintf("127.0.0.1:%d", localPort))
KeepAliveDial ==
    /\ Alive
    /\ kpc = "dial"
    /\ dialed' = dialed \cup {DialAddr(cfg.LocalPort)}
    /\ \E outcome \in {"connected", "refused"} :
          /\ probes' = Append(probes, outcome)
          /\ connOpen' = IF outcome = "connected" THEN connOpen + 1 ELSE connOpen
          /\ kpc' = AfterDial(outcome)
    /\ UNCHANGED << setupVars, pc, exitVars, tunnelVars, signalVars, tickPending,
                    ticksFired, ticksTaken, lastWrite, shutdownVars, calls, fnVars >>

\* faulty variant of KeepAliveWrite: after a write error the loop continues
\* without closing the connection
KeepAliveWriteContinues ==
    /\ Alive
    /\ kpc = "write"
    /\ \E outcome \in {"ok", "error"} :
          /\ lastWrite' = outcome
          /\ kpc' = IF outcome = "error" THEN "select" ELSE "close"
    /\ UNCHANGED << setupVars, pc, exitVars, tunnelVars, signalVars, tickPending,
                    ticksFired, ticksTaken, probes, dialed, connOpen, shutdownVars,
                    calls, fnVars >>

\* faulty variant of KeepAliveWrite: a write error makes KeepAlive return
KeepAliveWriteReturns ==
    /\ Alive
    /\ kpc = "write"
    /\ \E outcome \in {"ok", "error"} :
          /\ lastWrite' = outcome
          /\ kpc' = IF outcome = "error" THEN "stopped" ELSE "close"
    /\ UNCHANGED << setupVars, pc, exitVars, tunnelVars, signalVars, tickPending,
                    ticksFired, ticksTaken, probes, dialed, connOpen, shutdownVars,
                    calls, fnVars >>

\* KeepAlive: _, err = conn.Write([]byte("\n")); either outcome is printed
KeepAliveWrite ==
    /\ Alive
    /\ kpc = "write"
    /\ \E outcome \in {"ok", "error"} : lastWrite' = outcome
    /\ kpc' = "close"
    /\ UNCHANGED << setupVars, pc, exitVars, tunnelVars, signalVars, tickPending,
                    ticksFired, ticksTaken, probes, dialed, connOpen, shutdownVars,
                    calls, fnVars >>

\* KeepAlive: conn.Close(), and the loop goes round
KeepAliveClose ==
    /\ Alive
    /\ kpc = "close"
    /\ connOpen' = connOpen - 1
    /\ kpc' = "select"
    /\ UNCHANGED << setupVars, pc, exitVars, tunnelVars, signalVars, tickPending,
                    ticksFired, ticksTaken, probes, dialed, lastWrite, shutdownVars,
                    calls, fnVars >>

----------------------------------------------------------------------------

Next ==
    \/ LoadConfig
    \/ Validate
    \/ CreateAWSSession
    \/ Locate
    \/ Negotiate
    \/ StartKeeper
    \/ LaunchBuiltin
    \/ BuiltinReturn
    \/ LaunchExternal
    \/ Notify
    \/ Wait
    \/ CloseStop
    \/ Cleanup
    \/ Return
    \/ Signal
    \/ ChildExit
    \/ Tick
    \/ KeepAliveSelect
    \/ KeepAliveDial
    \/ KeepAliveWrite
    \/ KeepAliveClose

Spec == Init /\ [][Next]_vars

\* the statements of main from <-c to its return; none of them blocks once a
\* request is in c, and the Go scheduler runs a goroutine that can run
MainShutdownPath == Wait \/ CloseStop \/ Cleanup \/ Return

\* a run in which main, once it can go on from <-c, does go on
FairSpec == Spec /\ WF_vars(MainShutdownPath)


----------------------------------------------------------------------------
(* The function harness: getInstanceID and startPortForwarding applied to   *)
(* inputs drawn from bounded sets                                          *)

Hosts == {"", "db.internal", "10.0.0.5"}

Ports == (0 - MaxPort .. MaxPort) \cup {80, 443, 3306, 65535}

LocatorInputs ==
    [fn : {"getInstanceID"}, b : Builds, queryErr : {""} \cup Ec2Errors,
     reservations : DescribeOutputs]

NegotiatorInputs ==
    [fn : {"startPortForwarding"}, instanceID : InstanceIds, remoteHost : Hosts,
     localPort : Ports, remotePort : Ports]

Regions == {"us-east-1", "eu-west-1"}

LauncherInputs ==
    [fn : {"launchers"}, response : SessionOutputs, region : Regions,
     profile : {"default", "prod"}, instanceID : InstanceIds,
     endpoint : {Endpoint(r) : r \in Regions}]

ResolverInputs ==
    [fn : {"resolve"}, flags : ConfigsOf("builtin"), fileCfg : ConfigsOf("builtin")]

FnInit ==
    /\ MainInit
    /\ build = "dual"
    /\ cfg = [Profile |-> "", Region |-> "", InstanceName |-> "", LocalPort |-> 0,
              RemoteHost |-> "", RemotePort |-> 0, UseBuiltin |-> FALSE]
    /\ configFile = ""
    /\ fnpc = "call"
    /\ fnIn \in LocatorInputs \cup NegotiatorInputs \cup LauncherInputs
                \cup ResolverInputs
    /\ fnOut = << >>

\* getInstanceID(client, instanceName) on a client that answers fnIn
CallGetInstanceID ==
    /\ fnpc = "call"
    /\ fnIn.fn = "getInstanceID"
    /\ fnOut' = getInstanceID(fnIn.b, fnIn.queryErr, fnIn.reservations)
    /\ fnpc' = "done"
    /\ UNCHANGED << mainVars, fnIn >>

\* startPortForwarding(client, instanceID, remoteHost, localPort, remotePort): the
\* input it hands to client.StartSession
CallStartPortForwarding ==
    /\ fnpc = "call"
    /\ fnIn.fn = "startPortForwarding"
    /\ fnOut' = StartSessionInput(fnIn.instanceID, fnIn.remoteHost, fnIn.localPort,
                                  fnIn.remotePort)
    /\ fnpc' = "done"
    /\ UNCHANGED << mainVars, fnIn >>

\* the three launchers on the same descriptor, region, profile, identifier and
\* endpoint: the argument vector each of them builds
CallLaunchers ==
    /\ fnpc = "call"
    /\ fnIn.fn = "launchers"
    /\ fnOut' = [builtin |-> BuiltinArgs(fnIn.response, fnIn.region, fnIn.profile,
                                          fnIn.instanceID, fnIn.endpoint),
                  external |-> ExternalArgs(fnIn.response, fnIn.region, fnIn.profile,
                                            fnIn.instanceID, fnIn.endpoint),
                  plugin |-> PluginArgs(fnIn.response, fnIn.region, fnIn.profile,
                                        fnIn.instanceID)]
    /\ fnpc' = "done"
    /\ UNCHANGED << mainVars, fnIn >>

\* main run with the flags fnIn.flags and --config naming a file that holds
\* fnIn.fileCfg: the settings after the load, and what the check of the
\* required parameters says about them
CallResolve ==
    /\ fnpc = "call"
    /\ fnIn.fn = "resolve"
    /\ LET resolved == ResolveConfig(fnIn.flags, fnIn.fileCfg)
       IN  fnOut' = [cfg |-> resolved, missing |-> MissingParameters(resolved)]
    /\ fnpc' = "done"
    /\ UNCHANGED << mainVars, fnIn >>

FnNext ==
    CallGetInstanceID \/ CallStartPortForwarding \/ CallLaunchers \/ CallResolve

SpecFn == FnInit /\ [][FnNext]_vars


----------------------------------------------------------------------------
(* Properties *)

\* the positions <<reservation, instance>> of the running instances of a result
RunningAt(rs) ==
    {p \in (1 .. Len(rs)) \X (1 .. MaxInstances) :
        p[2] <= Len(rs[p[1]]) /\ rs[p[1]][p[2]].State = "running"}

\* enumeration order over the reservations and the instances within each
Before(p, q) == p[1] < q[1] \/ (p[1] = q[1] /\ p[2] <= q[2])

NotFoundErrors == {"No running aws instances found.", "no running instances found"}

\* C8: getInstanceID returns the identifier of the first running instance in
\* enumeration order over all reservations and their instances; it returns the
\* not-found error exactly when the query succeeded and no returned instance is
\* running (an empty result included), and the error of the query unchanged
\* when the query failed.
C8_FirstRunningInstance ==
    (fnpc = "done" /\ fnIn.fn = "getInstanceID") =>
        LET rs == fnIn.reservations
            P  == RunningAt(rs)
        IN  /\ fnIn.queryErr # "" => fnOut = [id |-> "", err |-> fnIn.queryErr]
            /\ (fnIn.queryErr = "" /\ P # {}) =>
                  /\ fnOut.err = ""
                  /\ \E p \in P :
                        /\ \A q \in P : Before(p, q)
                        /\ fnOut.id = rs[p[1]][p[2]].InstanceId
            /\ (fnOut.err \in NotFoundErrors) <=> (fnIn.queryErr = "" /\ P = {})
            /\ fnOut.err \in NotFoundErrors => fnOut.id = ""

\* C8 witness: a stopped instance first, then two running instances with
\* different identifiers in the second reservation, and the earlier one returned
C8_Witness ==
    /\ fnpc = "done"
    /\ fnIn.fn = "getInstanceID"
    /\ fnIn.queryErr = ""
    /\ Len(fnIn.reservations) = 2
    /\ Len(fnIn.reservations[1]) = 1
    /\ fnIn.reservations[1][1].State = "stopped"
    /\ Len(fnIn.reservations[2]) = 2
    /\ fnIn.reservations[2][1] = [InstanceId |-> "i-0b", State |-> "running"]
    /\ fnIn.reservations[2][2] = [InstanceId |-> "i-0a", State |-> "running"]
    /\ fnOut = [id |-> "i-0b", err |-> ""]

DigitValue(ch) ==
    CASE ch = "0" -> 0 [] ch = "1" -> 1 [] ch = "2" -> 2 [] ch = "3" -> 3
      [] ch = "4" -> 4 [] ch = "5" -> 5 [] ch = "6" -> 6 [] ch = "7" -> 7
      [] ch = "8" -> 8 [] ch = "9" -> 9 [] OTHER -> -1

RECURSIVE AllDigits(_)
AllDigits(str) ==
    str = "" \/ (DigitValue(Head(str)) >= 0 /\ AllDigits(Tail(str)))

RECURSIVE ParseNat(_, _)
ParseNat(str, acc) ==
    IF str = "" THEN acc ELSE ParseNat(Tail(str), 10 * acc + DigitValue(Head(str)))

\* str is the decimal numeral of n: an optional minus sign, then digits with
\* no leading zero, read from the left
IsDecimalOf(str, n) ==
    LET digits == IF n < 0 /\ str # "" /\ Head(str) = "-" THEN Tail(str) ELSE str
        size   == IF n < 0 THEN 0 - n ELSE n
    IN  /\ digits # ""
        /\ AllDigits(digits)
        /\ Len(digits) > 1 => Head(digits) # "0"
        /\ n < 0 => Head(str) = "-"
        /\ ParseNat(digits, 0) = size

\* C9: the session request built by startPortForwarding targets the given
\* instance id, names the document for port forwarding to a remote host, and
\* its parameter map has exactly the keys localPortNumber, host and portNumber,
\* each holding one string: the decimal numeral of the local port, the remote
\* host, the decimal numeral of the remote port.
C9_SessionRequest ==
    (fnpc = "done" /\ fnIn.fn = "startPortForwarding") =>
        /\ fnOut.Target = fnIn.instanceID
        /\ fnOut.DocumentName = "AWS-StartPortForwardingSessionToRemoteHost"
        /\ DOMAIN fnOut.Parameters = {"localPortNumber", "host", "portNumber"}
        /\ \A k \in DOMAIN fnOut.Parameters : Len(fnOut.Parameters[k]) = 1
        /\ IsDecimalOf(fnOut.Parameters.localPortNumber[1], fnIn.localPort)
        /\ fnOut.Parameters.host[1] = fnIn.remoteHost
        /\ IsDecimalOf(fnOut.Parameters.portNumber[1], fnIn.remotePort)

\* C9 witness: the request for local port 3306, host db.internal, remote port 443
C9_Witness ==
    /\ fnpc = "done"
    /\ fnIn.fn = "startPortForwarding"
    /\ fnIn.localPort = 3306
    /\ fnIn.remoteHost = "db.internal"
    /\ fnIn.remotePort = 443
    /\ fnOut.Parameters = [localPortNumber |-> << "3306" >>, host |-> << "db.internal" >>,
                           portNumber |-> << "443" >>]


\* a termination request was delivered while main was at `where`
SignalledAt(where) == \E i \in 1 .. Len(sigLog) : sigLog[i] = where

\* C1: with the in-process strategy, a termination request that arrives while
\* startSessionManagerPluginBuiltin is still blocked leads to stopChan being
\* closed: the process does not end after such a request with stopChan open.
C1_ShutdownWhileBlocked ==
    (SignalledAt("blocked") /\ pc \in Terminal) => stopChan = "closed"

\* C2: once stopChan is closed, KeepAlive begins no further probe, even when
\* a tick is pending at the close: no tick received from ticker.C after the
\* close is followed by its connection attempt.
C2_NoProbeAfterStop ==
    stopChan = "closed" => ~(ticksTaken > ticksAtStop /\ Len(probes) = ticksTaken)

\* C3: on a termination request the spawned process receives exactly one kill
\* request if the process handle is set, and none if it is not: when the
\* process has ended after a termination request, Kill() was called once with
\* a handle and never without one.
C3_KillExactlyOnce ==
    (sigLog # << >> /\ pc \in Terminal) =>
        killCount = IF sessionManagerProcess = "proc" THEN 1 ELSE 0

\* C4: when the external agent was started and a termination request is
\* delivered at any later moment, the child is killed before the parent
\* exits: the parent never ends leaving the child running.
C4_ChildKilledBeforeExit ==
    (launched = "external" /\ sigLog # << >> /\ pc \in Terminal) => child # "running"

\* C5: on the exit paths taken after KeepAlive was started (main returning
\* after a termination request, and a fatal launch failure), stopChan is closed
\* before or together with the kill of the process handle and both are done
\* before the process exits; the kill never precedes the close.
C5_StopBeforeKillOnEveryExit ==
    /\ kpc # "none" => ~killBeforeStop
    /\ (kpc # "none" /\ pc \in {"exited", "fatal"}) =>
          /\ stopChan = "closed"
          /\ sessionManagerProcess = "proc" => killCount >= 1

\* C6: KeepAlive makes exactly one connection attempt, to 127.0.0.1:<local
\* port>, for every tick it receives from its ticker (an attempt is
\* outstanding only between the receipt and the dial), and a failed attempt
\* leaves the loop running: the loop is left only when stopChan is closed.
C6_OneAttemptPerTick ==
    /\ Len(probes) = ticksTaken - (IF kpc = "dial" THEN 1 ELSE 0)
    /\ probes # << >> => dialed # {}
    /\ cfg.LocalPort = 3306 => dialed \subseteq {"127.0.0.1:3306"}
    /\ kpc = "stopped" => stopChan = "closed"
    /\ (probes # << >> /\ probes[Len(probes)] = "refused" /\ stopChan = "open") =>
          kpc \in {"select", "dial"}

\* C6 witness: the attempt of the first tick failed, the one of the second
\* tick was made, and stopChan is still open
C6_Witness ==
    /\ probes = << "refused", "connected" >>
    /\ ticksTaken = 2
    /\ stopChan = "open"
    /\ dialed = {"127.0.0.1:3306"}

\* no call of an external service and no keep-alive probe has been made
NoExternalCall ==
    calls = << >> /\ probes = << >> /\ launched = "none" /\ launchArgs = << >>
    /\ kpc = "none"

\* C7: when a required field of the settings that main validates is empty or
\* zero, the run goes no further than the validation, ends there with the
\* fatal status 1, and makes no external service call.
C7_InvalidSettingsRefused ==
    LET missing ==
            \/ cfg.Profile = "" \/ cfg.Region = "" \/ cfg.InstanceName = ""
            \/ cfg.LocalPort = 0 \/ cfg.RemoteHost = "" \/ cfg.RemotePort = 0
    IN  missing =>
            /\ pc \in {"loadConfig", "validate", "fatal", "killed"}
            /\ pc = "fatal" => exitCode = 1
            /\ NoExternalCall

\* C7 witness: settings loaded from the file with the remote port alone
\* missing, refused
C7_Witness ==
    /\ pc = "fatal"
    /\ exitCode = 1
    /\ configFile # ""
    /\ cfg.Profile # "" /\ cfg.Region # "" /\ cfg.InstanceName # ""
    /\ cfg.LocalPort # 0 /\ cfg.RemoteHost # "" /\ cfg.RemotePort = 0
    /\ sigLog = << >>

\* C10: whenever the agent is invoked, its argument vector has exactly seven
\* elements: the invocation name, the serialized session descriptor of this
\* run, the region, the literal StartSession, the profile, {"Target":"<id>"}
\* with the identifier found in this run, and https://ssm.<region>.amazonaws.com.
C10_ArgumentVector ==
    launchArgs # << >> =>
        /\ Len(launchArgs) = 7
        /\ launchArgs[1] = IF UsesBuiltin THEN "aws-go-forward" ELSE "session-manager-plugin"
        /\ launchArgs[2] = Marshal(sessionResponse)
        /\ sessionResponse \in SessionOutputs
        /\ launchArgs[3] = cfg.Region
        /\ launchArgs[4] = "StartSession"
        /\ launchArgs[5] = cfg.Profile
        /\ instanceID \in InstanceIds
        /\ launchArgs[6] = "{\"Target\":\"" \o instanceID \o "\"}"
        /\ launchArgs[7] = "https://ssm." \o cfg.Region \o ".amazonaws.com"

\* C10 witness: the spawned agent started for instance i-0b with the
\* descriptor holding tok-B
C10_Witness ==
    /\ launched = "external"
    /\ instanceID = "i-0b"
    /\ sessionResponse.TokenValue = "tok-B"
    /\ launchArgs = << "session-manager-plugin",
                       "{\"SessionId\":\"sess-1\",\"StreamUrl\":\"wss://stream/1\",\"TokenValue\":\"tok-B\",\"ResultMetadata\":{}}",
                       "us-east-1", "StartSession", "default", "{\"Target\":\"i-0b\"}",
                       "https://ssm.us-east-1.amazonaws.com" >>

----------------------------------------------------------------------------
(* Failure handling and the life of the process *)

\* the external calls a run has made when the given setup step has just failed
CallsAtFailure(step) ==
    CASE step \in {"config", "validate", "session"} -> << >>
      [] step = "locate" -> << "DescribeInstances" >>
      [] step = "negotiate" -> << "DescribeInstances", "StartSession" >>
      [] step = "launch" -> << "DescribeInstances", "StartSession", "launch" >>

\* C11: every setup failure (configuration load, instance lookup, session
\* negotiation, agent launch) ends the process at once with a non-zero status,
\* the failed step made once and no later step made; and a run that ends through
\* a termination request delivered after the tunnel was launched has status 0
C11_FailFastAndCleanExit ==
    /\ failure # "none" =>
          /\ pc = "fatal"
          /\ exitCode > 0
          /\ calls = CallsAtFailure(failure)
          /\ ~notified
    /\ (launched # "none" /\ sigLog # << >> /\ pc \in Terminal) => exitCode = 0

\* the step ends the process
ProcessEnds == pc \notin Terminal /\ pc' \in Terminal

\* the step is a probe that failed, the return of the in-process agent call,
\* or the exit of the spawned agent
TunnelEvent ==
    \/ Len(probes') > Len(probes) /\ probes'[Len(probes')] = "refused"
    \/ kpc = "write" /\ kpc' = "close" /\ lastWrite' = "error"
    \/ pc = "blocked" /\ pc' # "blocked" /\ sigLog' = sigLog
    \/ child = "running" /\ child' = "exited"

\* C12: once the agent has been launched, the process ends only when an
\* interrupt or termination request has been delivered; a failed probe, the
\* return of the in-process agent call and the exit of the spawned agent leave
\* the process running
C12_EndsOnlyOnRequest ==
    [][launched # "none" =>
          /\ ProcessEnds => sigLog' # << >>
          /\ TunnelEvent => ~ProcessEnds]_vars

\* the spawned agent has exited, a probe was refused and a write failed, and
\* main still waits for a request that has not come
C12_Witness ==
    /\ launched = "external"
    /\ child = "exited"
    /\ \E i \in 1..Len(probes) : probes[i] = "refused"
    /\ lastWrite = "error"
    /\ pc = "wait"
    /\ sigLog = << >>

----------------------------------------------------------------------------
(* Launch strategies *)

\* C13: in no execution is the session-manager-plugin binary started as a
\* separate operating-system process; the agent only ever runs through the
\* embedded in-process routine
C13_NeverSpawnsPlugin ==
    /\ child = "none"
    /\ launched # "external"
    /\ launchArgs # << >> => launchArgs = BuiltinArgs(sessionResponse, cfg.Region,
                                                      cfg.Profile, instanceID, ssmEndpoint)

----------------------------------------------------------------------------
(* The lifecycle of the controller *)

\* the lifecycle state the main goroutine is in at position p
Phase(p) ==
    CASE p \in {"loadConfig", "validate"} -> "Idle"
      [] p \in {"createSession", "locate", "negotiate"} -> "Negotiating"
      [] p \in {"startKeeper", "launch", "blocked", "notify", "wait"} -> "Tunneling"
      [] p \in {"closeStop", "cleanup", "return"} -> "ShuttingDown"
      [] p \in Terminal -> "Terminated"

\* the place of a lifecycle state in Idle, Negotiating, Tunneling, ShuttingDown, Terminated
Rank(phase) ==
    CASE phase = "Idle" -> 0
      [] phase = "Negotiating" -> 1
      [] phase = "Tunneling" -> 2
      [] phase = "ShuttingDown" -> 3
      [] phase = "Terminated" -> 4

\* ShuttingDown is entered only from Tunneling, by main receiving a request from c
ShutdownEntry ==
    (Phase(pc') = "ShuttingDown" /\ Phase(pc) # "ShuttingDown") =>
        (Phase(pc) = "Tunneling" /\ c > 0 /\ c' = c - 1 /\ sigLog # << >>)

\* once Terminated, nothing of the program moves: no probe, kill, launch, call
\* or signal handling
TerminatedIsFinal ==
    pc \in Terminal =>
        UNCHANGED << mainVarsButChild, fnVars >>

\* C14 (as claimed): the lifecycle moves only from a state to itself or to the
\* next one of Idle, Negotiating, Tunneling, ShuttingDown, Terminated, no state
\* skipped or entered again; ShuttingDown is entered only from Tunneling on a
\* request; once Terminated nothing further occurs
C14_NoStateSkipped ==
    [][/\ Rank(Phase(pc')) \in {Rank(Phase(pc)), Rank(Phase(pc)) + 1}
       /\ ShutdownEntry
       /\ TerminatedIsFinal]_vars

\* C14: the lifecycle never moves backwards and never enters a state again;
\* the only moves that skip states go straight to Terminated (a fatal setup
\* failure, or a request delivered while no handler is registered);
\* ShuttingDown is entered only from Tunneling on a request; once Terminated
\* nothing further occurs
C14_ForwardOrStraightToTerminated ==
    [][/\ Rank(Phase(pc')) >= Rank(Phase(pc))
       /\ Rank(Phase(pc')) > Rank(Phase(pc)) + 1 => pc' \in {"fatal", "killed"}
       /\ ShutdownEntry
       /\ TerminatedIsFinal]_vars

\* a run that went through every lifecycle state in turn and has ended
C14_Witness ==
    /\ pc = "exited"
    /\ calls = CallsAtFailure("launch")
    /\ Len(probes) > 0
    /\ stopChan = "closed"
    /\ killCount = 1

----------------------------------------------------------------------------
(* Order of the setup steps *)

\* the external calls of a complete setup, in the order of main
SetupCalls == << "DescribeInstances", "StartSession", "launch" >>

\* s is an initial part of t
IsPrefix(s, t) == Len(s) <= Len(t) /\ s = SubSeq(t, 1, Len(s))

\* C15: the external calls of setup are made in one fixed order, each at most
\* once and only after the one before succeeded: the session is requested only
\* with an identifier returned by the Instance Locator, and KeepAlive is started
\* and the launcher invoked only with a descriptor returned by the negotiation
C15_SetupOrder ==
    /\ [](/\ IsPrefix(calls, SetupCalls)
          /\ Len(calls) >= 2 => instanceID \in InstanceIds
          /\ Len(calls) >= 3 => sessionResponse \in SessionOutputs
          /\ kpc # "none" => (Len(calls) >= 2 /\ sessionResponse \in SessionOutputs))
    /\ [][/\ (kpc = "none" /\ kpc' # "none") => (pc = "startKeeper" /\ calls = SubSeq(SetupCalls, 1, 2))
          /\ kpc # "none" => kpc' # "none"
          /\ Phase(pc') = "Negotiating" => Phase(pc) \in {"Idle", "Negotiating"}]_vars

\* the whole setup was made: located, negotiated, KeepAlive running, agent launched
C15_Witness ==
    /\ calls = SetupCalls
    /\ instanceID \in InstanceIds
    /\ sessionResponse \in SessionOutputs
    /\ kpc # "none"
    /\ launched # "none"

----------------------------------------------------------------------------
(* The keep-alive loop and the Shutdown Signal *)

\* C16: the loop of KeepAlive ends only by taking the stopChan case of its
\* select, which needs stopChan closed; a refused dial sends it back to the
\* select and a write, failed or not, on to the close of the connection; and
\* once it has ended it is not started again
C16_KeeperEndsOnlyOnStop ==
    [][/\ (kpc # "stopped" /\ kpc' = "stopped") => (kpc = "select" /\ stopChan = "closed")
       /\ (kpc = "dial" /\ kpc' # "dial") =>
              kpc' = IF probes'[Len(probes')] = "refused" THEN "select" ELSE "write"
       /\ (kpc = "write" /\ kpc' # "write") => kpc' = "close"
       /\ kpc = "stopped" => kpc' = "stopped"]_vars

\* the loop survived a refused dial and a failed write and then ended on the
\* closed stopChan
C16_Witness ==
    /\ kpc = "stopped"
    /\ stopChan = "closed"
    /\ \E i \in 1..Len(probes) : probes[i] = "refused"
    /\ lastWrite = "error"

----------------------------------------------------------------------------
(* The Tunnel Process Handle *)

\* the positions of main from the wait for a termination request on
AtOrAfterWait == {"wait", "closeStop", "cleanup", "return", "exited"}

\* one launch per run, by one strategy; the handle is assigned at most once, is
\* set exactly when the spawn succeeded, and is assigned before main waits for a
\* request; Kill() is called only by the shutdown path, after that assignment
HandleFollowsStrategy ==
    /\ Len(SelectSeq(calls, LAMBDA x : x = "launch")) <= 1
    /\ launched = "builtin" => (UsesBuiltin /\ child = "none" /\ launchArgs[1] # "session-manager-plugin")
    /\ launched = "external" => (~UsesBuiltin /\ launchArgs[1] = "session-manager-plugin")
    /\ pc \in AtOrAfterWait => launched = (IF UsesBuiltin THEN "builtin" ELSE "external")
    /\ handleWrites <= 1
    /\ sessionManagerProcess = "proc" <=> launched = "external"
    /\ child # "none" <=> launched = "external"
    /\ (pc \in AtOrAfterWait /\ ~UsesBuiltin) => handleWrites = 1
    /\ handleWrites = 1 => ~UsesBuiltin
    /\ killCount > 0 => (handleWrites = 1 /\ pc \in {"return", "exited"})

\* C18 (as claimed): the two strategies exclude each other, the handle follows
\* them as above, and the shutdown path is the only reader of the handle
C18_OnlyShutdownReadsHandle ==
    /\ HandleFollowsStrategy
    /\ handleReads \subseteq {"cleanup"}

\* C18: the two strategies exclude each other and the handle follows them as
\* above; the handle is read only by the main goroutine, for the PID message
\* right after a successful spawn and by the shutdown path, both after the
\* assignment if there is one, so the assignment and the kill never run
\* concurrently
C18_HandleReadOnlyByMain ==
    /\ HandleFollowsStrategy
    /\ handleReads \subseteq {"main", "cleanup"}
    /\ "main" \in handleReads <=> launched = "external"
    /\ "main" \in handleReads => handleWrites = 1
    /\ "cleanup" \in handleReads => pc \in {"return", "exited"}

\* an external-strategy run that has ended: handle assigned once, read for the
\* PID message and by cleanup(), child killed once
C18_Witness ==
    /\ pc = "exited"
    /\ launched = "external"
    /\ sessionManagerProcess = "proc"
    /\ handleWrites = 1
    /\ handleReads = {"main", "cleanup"}
    /\ killCount = 1

----------------------------------------------------------------------------
(* Termination under the external-process strategy *)

\* C19: under the external-process strategy the launch returns as soon as the
\* child has started, without waiting for it to finish; and from the signal
\* wait on, a delivered interrupt or termination request leads to the process
\* having ended by main returning, with stopChan closed (where the program has
\* one) and the child killed
C19_RequestLeadsToTeardown ==
    /\ [][(pc = "launch" /\ launched' = "external") =>
              (child' = "running" /\ pc' = "notify")]_vars
    /\ (pc = "wait" /\ launched = "external" /\ c > 0)
          ~> (/\ pc = "exited"
              /\ exitCode = 0
              /\ build = "dual" => stopChan = "closed"
              /\ killCount = 1
              /\ child \in {"killed", "exited"})

\* the request found the child still running at the signal wait, and the run
\* ended with stopChan closed and the child killed
C19_Witness ==
    /\ build = "dual"
    /\ launched = "external"
    /\ sigLog # << >>
    /\ pc = "exited"
    /\ stopChan = "closed"
    /\ child = "killed"

----------------------------------------------------------------------------
(* Launch failures *)

\* C20: when the agent cannot be started, under either strategy, the launcher
\* reports an error and the run ends fatally with a non-zero status; main never
\* goes on to register the handler and wait for a request as if the tunnel
\* were up
C20_LaunchFailureIsFatal ==
    failure = "launch" =>
        /\ pc = "fatal"
        /\ exitCode > 0
        /\ ~notified
        /\ UsesBuiltin => BuiltinResult("failed") # "nil"

----------------------------------------------------------------------------
(* The argument vectors of the launchers compared *)

\* the vectors a and b have the same length and agree from the second element on
SameAfterName(a, b) ==
    /\ Len(a) = Len(b)
    /\ \A i \in 2..Len(a) : a[i] = b[i]

\* C21: for the same descriptor, region, profile, instance identifier and
\* endpoint, the vector given to the spawned agent and the one given to the
\* in-process routine have seven elements each and differ in the first, the
\* invocation name, only: the six that follow are equal one by one, in order.
\* startSessionManagerPlugin has no endpoint parameter; its vector is compared
\* for the endpoint it formats from the region.
C21_SameArgumentsAfterName ==
    (fnpc = "done" /\ fnIn.fn = "launchers") =>
        /\ Len(fnOut.builtin) = 7
        /\ SameAfterName(fnOut.external, fnOut.builtin)
        /\ fnOut.external[1] # fnOut.builtin[1]
        /\ fnIn.endpoint = Endpoint(fnIn.region) =>
               SameAfterName(fnOut.plugin, fnOut.builtin)
        /\ fnOut.plugin[1] = fnOut.external[1]

\* the launchers were applied to the descriptor with tok-B for i-0b in eu-west-1
C21_Witness ==
    /\ fnpc = "done"
    /\ fnIn.fn = "launchers"
    /\ fnIn.response.TokenValue = "tok-B"
    /\ fnIn.region = "eu-west-1"
    /\ fnIn.endpoint = "https://ssm.eu-west-1.amazonaws.com"
    /\ fnOut.builtin[6] = "{\"Target\":\"i-0b\"}"
    /\ fnOut.external[6] = "{\"Target\":\"i-0b\"}"
    /\ fnOut.plugin[7] = "https://ssm.eu-west-1.amazonaws.com"

----------------------------------------------------------------------------
(* Settings from flags and file *)

\* the fields of Config the check of main requires
RequiredFields ==
    {"Profile", "Region", "InstanceName", "LocalPort", "RemoteHost", "RemotePort"}

\* the field f of the settings k was not given (it holds the zero value)
Unset(k, f) == k[f] = IF f \in {"LocalPort", "RemotePort"} THEN 0 ELSE ""

\* C22: with flags and a configuration file both given, the settings are a
\* merge of the two: a field the file does not have keeps the value its flag
\* gave, so settings whose six required fields are covered by flags and file
\* together pass the check
C22_FlagsAndFileMerged ==
    (fnpc = "done" /\ fnIn.fn = "resolve") =>
        /\ \A f \in RequiredFields :
              Unset(fnIn.fileCfg, f) => fnOut.cfg[f] = fnIn.flags[f]
        /\ (\A f \in RequiredFields : ~Unset(fnIn.flags, f) \/ ~Unset(fnIn.fileCfg, f))
              => ~fnOut.missing

----------------------------------------------------------------------------
(* The probe connection *)

\* C23: a probe connection lives within one iteration of the loop: it is open
\* exactly from a successful dial to the conn.Close() of that iteration, which
\* follows the write whether the write succeeded or failed; so at most one is
\* open at any time, none is open when the loop is back at the select or takes
\* the next tick, and after a failed dial nothing is closed
C23_ProbeConnectionShortLived ==
    /\ [](/\ connOpen \in {0, 1}
          /\ connOpen = 1 <=> kpc \in {"write", "close"}
          /\ kpc \in {"none", "select", "dial", "stopped"} => connOpen = 0)
    /\ [][/\ ticksTaken' > ticksTaken => (connOpen = 0 /\ connOpen' = 0)
          /\ (kpc = "write" /\ kpc' # "write") => (kpc' = "close" /\ connOpen' = 1)
          /\ (kpc = "close" /\ kpc' # "close") => (kpc' = "select" /\ connOpen' = 0)
          /\ connOpen' < connOpen => kpc = "close"
          /\ (kpc = "dial" /\ kpc' # "dial" /\ probes'[Len(probes')] = "refused") =>
                 (connOpen' = connOpen /\ kpc' = "select")]_vars

\* a connection whose write failed was closed, and the next tick's dial was
\* refused: the loop is back at the select with nothing open
C23_Witness ==
    /\ probes = << "connected", "refused" >>
    /\ lastWrite = "error"
    /\ ticksTaken = 2
    /\ kpc = "select"
    /\ connOpen = 0

=============================================================================
